---- MODULE Spec2Model ----
(***************************************************************************)
(* SkyCast Analytics (app.py): one run of the Streamlit page script.       *)
(*                                                                         *)
(* The script reads two city names and a date range, geocodes both cities  *)
(* (get_coordinates), fetches both daily series (get_weather_data), and    *)
(* renders two metrics, a line chart and a pivoted table.  The two HTTP    *)
(* services are external: each call's response is chosen by the            *)
(* environment from a bounded set.                                         *)
(***************************************************************************)
EXTENDS Integers, Sequences, FiniteSets, TLC

VARIABLES
    pc,             \* position of the script
    city_a_input,   \* st.text_input("City A")
    city_b_input,   \* st.text_input("City B")
    date_range,     \* st.date_input("Select Date Range")
    start_date,     \* first endpoint, once unpacked
    end_date,       \* second endpoint, once unpacked
    geo_a,          \* (lat_a, lon_a, name_a, country_a)
    geo_b,          \* (lat_b, lon_b, name_b, country_b)
    df_a,           \* result of get_weather_data for city A
    df_b,           \* result of get_weather_data for city B
    combined_df,    \* pd.concat([df_a, df_b])
    pivot_df,       \* combined_df.pivot(...)
    http,           \* the HTTP exchanges so far: <<[fn, request, response]>>
    ui,             \* what the page has rendered so far, in order (the static
                    \* header, inputs, dividers and tab titles are left out)
    exc             \* the exception that ended the run, if any

vars == <<pc, city_a_input, city_b_input, date_range, start_date, end_date,
          geo_a, geo_b, df_a, df_b, combined_df, pivot_df, http, ui, exc>>

----------------------------------------------------------------------------
(* Bounds *)

\* The calendar days the date picker offers (day 1 .. day MaxDays).
MaxDays == 3

Days == 1..MaxDays

----------------------------------------------------------------------------
(* Python values *)

None == [t |-> "None"]
Num(x) == [t |-> "num", v |-> x]
Str(s) == [t |-> "str", v |-> s]
NaN == [t |-> "nan"]
Unbound == [t |-> "unbound"]

\* bool(x) as Python's `if x` / `x and y` take it
Truthy(x) ==
    CASE x.t = "None" -> FALSE
      [] x.t = "num" -> x.v # 0
      [] x.t = "str" -> x.v # ""
      [] OTHER -> TRUE

\* Outcomes of a call
Return(v) == [kind |-> "return", value |-> v]
Raise(e) == [kind |-> "raise", value |-> e]
Hang == [kind |-> "hang", value |-> "blocked"]

----------------------------------------------------------------------------
(* Calendar dates and their ISO strings *)

IsoDates == <<"2024-01-01", "2024-01-02", "2024-01-03", "2024-01-04",
              "2024-01-05", "2024-01-06">>

\* date.strftime("%Y-%m-%d")
strftime(d) == IsoDates[d]

\* pd.to_datetime on one ISO string: the day it denotes
to_datetime(s) == CHOOSE d \in DOMAIN IsoDates : IsoDates[d] = s

\* the elements of a set of days, ascending
RECURSIVE SortedSeq(_)
SortedSeq(S) ==
    IF S = {} THEN <<>>
    ELSE LET m == CHOOSE x \in S : \A y \in S : x <= y
         IN  <<m>> \o SortedSeq(S \ {m})

----------------------------------------------------------------------------
(* The external services: what one HTTP GET can come back with *)

Response(status, body) == [transport |-> "ok", status_code |-> status, json |-> body]
NetworkError == [transport |-> "network_error", status_code |-> 0, json |-> <<>>]
Timeout == [transport |-> "timeout", status_code |-> 0, json |-> <<>>]

\* The city names typed into the two text inputs
CityInputs == { "London", "New York", "Antarctica", "Equator" }

\* The first entry of the geocoding "results" array for a name the service
\* knows: "country" is optional, and a place can lie on the equator.
GeoMatch(city_name) ==
    CASE city_name = "London" ->
           [latitude |-> Num(51), longitude |-> Num(0), name |-> Str("London"),
            country |-> Str("United Kingdom")]
      [] city_name = "New York" ->
           [latitude |-> Num(40), longitude |-> Num(-74), name |-> Str("New York"),
            country |-> Str("United States")]
      [] city_name = "Antarctica" ->
           [latitude |-> Num(-75), longitude |-> Num(0), name |-> Str("Antarctica")]
      [] city_name = "Equator" ->
           [latitude |-> Num(0), longitude |-> Num(9), name |-> Str("Equator"),
            country |-> Str("Gabon")]

\* JSON bodies of the geocoding endpoint for count=1: no "results" key when
\* nothing matches, an empty array, or one match
GeoBodies(city_name) ==
    { [generationtime_ms |-> Num(1)], [results |-> <<>>],
      [results |-> <<GeoMatch(city_name)>>] }

GeoResponses(city_name) ==
    { Response(200, b) : b \in GeoBodies(city_name) }
        \cup { Response(503, [error |-> Str("unavailable")]), NetworkError, Timeout }

\* daily maxima in degrees Celsius (whole degrees stand for the floats)
Temps == { Num(10), Num(20) }

\* "time" arrays the archive can send for [s, e]: at least one day, ascending,
\* no day twice
TimeArrays(s, e) ==
    { [i \in 1..Cardinality(S) |-> strftime(SortedSeq(S)[i])] :
          S \in (SUBSET (s..e)) \ {{}} }

\* "temperature_2m_max" arrays: one float per day, for up to e - s + 1 days
TempArrays(s, e) == UNION { [1..n -> Temps] : n \in 1..(e - s + 1) }

WeatherBodies(s, e) ==
    { [daily |-> [time |-> t, temperature_2m_max |-> v]] :
          t \in TimeArrays(s, e), v \in TempArrays(s, e) }
        \cup { [daily |-> [time |-> t]] : t \in TimeArrays(s, e) }
        \cup { [daily |-> [temperature_2m_max |-> v]] : v \in TempArrays(s, e) }
        \cup { [utc_offset_seconds |-> Num(0)] }

WeatherResponses(s, e) ==
    { Response(200, b) : b \in WeatherBodies(s, e) }
        \cup { Response(400, [error |-> Str("bad request")]), NetworkError, Timeout }

\* requests.get(url) / requests.get(url, params=params): no timeout argument
\* and no try/except around it
requests_get(response) ==
    CASE response.transport = "network_error" -> Raise("ConnectionError")
      [] response.transport = "timeout" -> Hang
      [] OTHER -> Return(response)

----------------------------------------------------------------------------
(* get_coordinates *)

NotFound == <<None, None, None, None>>

\* get_coordinates with the emptiness test written >= 0 instead of > 0: the
\* first element of an empty "results" array is then indexed
get_coordinates_ge0(city_name, response) ==
    LET got == requests_get(response) IN
    IF got.kind # "return" THEN got
    ELSE IF response.status_code = 200 THEN
        LET data == response.json IN
        IF "results" \in DOMAIN data /\ Len(data.results) >= 0 THEN
            IF Len(data.results) = 0 THEN Raise("IndexError")
            ELSE LET result == data.results[1] IN
                 Return(<<result.latitude, result.longitude, result.name,
                          IF "country" \in DOMAIN result THEN result.country ELSE Str("")>>)
        ELSE Return(NotFound)
    ELSE Return(NotFound)

get_coordinates(city_name, response) ==
    LET got == requests_get(response) IN
    IF got.kind # "return" THEN got
    ELSE IF response.status_code = 200 THEN
        LET data == response.json IN
        IF "results" \in DOMAIN data /\ Len(data.results) > 0 THEN
            LET result == data.results[1] IN
            IF {"latitude", "longitude", "name"} \subseteq DOMAIN result
            THEN Return(<<result.latitude, result.longitude, result.name,
                          IF "country" \in DOMAIN result THEN result.country ELSE Str("")>>)
            ELSE Raise("KeyError")
        ELSE Return(NotFound)
    ELSE Return(NotFound)

----------------------------------------------------------------------------
(* get_weather_data *)

DataFrame(rows) == [t |-> "DataFrame", rows |-> rows]

archive_params(lat, lon, start, end) ==
    [latitude |-> lat, longitude |-> lon,
     start_date |-> strftime(start), end_date |-> strftime(end),
     daily |-> "temperature_2m_max", timezone |-> "auto"]

\* get_weather_data pairing each date with the temperatures read backwards
get_weather_data_reversed(lat, lon, start, end, response) ==
    LET got == requests_get(response) IN
    IF got.kind # "return" THEN got
    ELSE IF response.status_code = 200 THEN
        LET data == response.json IN
        IF "daily" \in DOMAIN data THEN
            IF "time" \notin DOMAIN data.daily THEN Raise("KeyError")
            ELSE IF "temperature_2m_max" \notin DOMAIN data.daily THEN Raise("KeyError")
            ELSE LET time == data.daily.time
                     temp == data.daily.temperature_2m_max
                 IN  IF Len(time) # Len(temp) THEN Raise("ValueError")
                     ELSE Return(DataFrame(
                              [i \in 1..Len(time) |->
                                  [Date |-> to_datetime(time[i]),
                                   MaxTemp |-> temp[Len(temp) + 1 - i]]]))
        ELSE Return(None)
    ELSE Return(None)

get_weather_data(lat, lon, start, end, response) ==
    LET got == requests_get(response) IN
    IF got.kind # "return" THEN got
    ELSE IF response.status_code = 200 THEN
        LET data == response.json IN
        IF "daily" \in DOMAIN data THEN
            IF "time" \notin DOMAIN data.daily THEN Raise("KeyError")
            ELSE IF "temperature_2m_max" \notin DOMAIN data.daily THEN Raise("KeyError")
            ELSE LET time == data.daily.time
                     temp == data.daily.temperature_2m_max
                 IN  IF Len(time) # Len(temp) THEN Raise("ValueError")
                     ELSE Return(DataFrame(
                              [i \in 1..Len(time) |->
                                  [Date |-> to_datetime(time[i]), MaxTemp |-> temp[i]]]))
        ELSE Return(None)
    ELSE Return(None)

----------------------------------------------------------------------------
(* Dataframe helpers used by the page *)

\* df["City"] = label
with_city(df, label) ==
    DataFrame([i \in 1..Len(df.rows) |->
        [Date |-> df.rows[i].Date, MaxTemp |-> df.rows[i].MaxTemp, City |-> label]])

\* f"{name}, {country}"
city_label(name, country) == Str(name.v \o ", " \o country.v)

\* pd.concat([df_a, df_b])
concat(a, b) == DataFrame(a.rows \o b.rows)

RECURSIVE SumTemps(_)
SumTemps(rows) ==
    IF rows = <<>> THEN 0 ELSE Head(rows).MaxTemp.v + SumTemps(Tail(rows))

\* df["Max Temp"].mean() of a frame with at least one row, as a fraction
mean(df) == [num |-> SumTemps(df.rows), den |-> Len(df.rows)]

\* f"{avg:.1f} °C": the average rounded to one decimal, as a number of tenths
format_1f(avg) == (20 * avg.num + avg.den) \div (2 * avg.den)

\* the lines px.line draws with color="City": one per value of the City column
px_line(df) ==
    { [City |-> c,
       points |-> SelectSeq(df.rows, LAMBDA r : r.City = c)] :
          c \in { df.rows[i].City : i \in 1..Len(df.rows) } }

\* DataFrame.pivot raises ValueError ("Index contains duplicate entries, cannot
\* reshape") when two rows share (index, columns)
has_duplicates(df) ==
    \E i, j \in 1..Len(df.rows) :
        i # j /\ df.rows[i].Date = df.rows[j].Date /\ df.rows[i].City = df.rows[j].City

\* combined_df.pivot(index="Date", columns="City", values="Max Temp")
pivot(df) ==
    IF has_duplicates(df) THEN Raise("ValueError")
    ELSE LET dates == { df.rows[i].Date : i \in 1..Len(df.rows) }
             cities == { df.rows[i].City : i \in 1..Len(df.rows) }
             cell(d, c) ==
                 IF \E i \in 1..Len(df.rows) : df.rows[i].Date = d /\ df.rows[i].City = c
                 THEN LET i == CHOOSE i \in 1..Len(df.rows) :
                                   df.rows[i].Date = d /\ df.rows[i].City = c
                      IN  df.rows[i].MaxTemp
                 ELSE NaN
         IN  Return([t |-> "DataFrame", index |-> SortedSeq(dates), columns |-> cities,
                     values |-> [k \in dates \X cities |-> cell(k[1], k[2])]])

----------------------------------------------------------------------------
(* The page script *)

\* what st.date_input can hand back: a tuple of 0, 1 or 2 dates (the second
\* not before the first), or a single date
DateRanges ==
    { [type |-> "tuple", items |-> <<>>] }
        \cup { [type |-> "tuple", items |-> <<d>>] : d \in Days }
        \cup { [type |-> "tuple", items |-> <<p[1], p[2]>>] :
                   p \in { q \in Days \X Days : q[1] <= q[2] } }
        \cup { [type |-> "date", items |-> <<d>>] : d \in Days }

lat_a == geo_a[1]
lon_a == geo_a[2]
name_a == geo_a[3]
country_a == geo_a[4]
lat_b == geo_b[1]
lon_b == geo_b[2]
name_b == geo_b[3]
country_b == geo_b[4]

Init ==
    /\ pc = "date_range"
    /\ city_a_input \in CityInputs
    /\ city_b_input \in CityInputs
    /\ date_range \in DateRanges
    /\ start_date = Unbound
    /\ end_date = Unbound
    /\ geo_a = Unbound
    /\ geo_b = Unbound
    /\ df_a = Unbound
    /\ df_b = Unbound
    /\ combined_df = Unbound
    /\ pivot_df = Unbound
    /\ http = <<>>
    /\ ui = <<>>
    /\ exc = None

\* the date-range test without its length check
date_range_ok_any_length(r) == r.type \in {"list", "tuple"}

\* isinstance(date_range, (list, tuple)) and len(date_range) == 2
date_range_ok(r) == r.type \in {"list", "tuple"} /\ Len(r.items) = 2

\* if lat_a and lat_b
coordinates_ok(la, lb) == Truthy(la) /\ Truthy(lb)

\* if df_a is not None and df_b is not None
frames_ok(a, b) == a # None /\ b # None

\* start_date, end_date = date_range
unpack2(r) ==
    IF r.type \notin {"list", "tuple"} THEN Raise("TypeError")
    ELSE IF Len(r.items) # 2 THEN Raise("ValueError")
    ELSE Return(r.items)

Exchange(fn, request, response, outcome) ==
    [fn |-> fn, request |-> request, response |-> response, outcome |-> outcome]

\* lines 85-86, 147-148
CheckDateRange ==
    /\ pc = "date_range"
    /\ IF date_range_ok(date_range)
       THEN LET out == unpack2(date_range) IN
            IF out.kind = "return"
            THEN /\ start_date' = out.value[1]
                 /\ end_date' = out.value[2]
                 /\ pc' = "geocode_a"
                 /\ UNCHANGED <<ui, exc>>
            ELSE /\ exc' = Str(out.value)
                 /\ pc' = "raised"
                 /\ UNCHANGED <<start_date, end_date, ui>>
       ELSE /\ ui' = Append(ui, [kind |-> "info"])
            /\ pc' = "done"
            /\ UNCHANGED <<start_date, end_date, exc>>
    /\ UNCHANGED <<city_a_input, city_b_input, date_range, geo_a, geo_b, df_a, df_b,
                   combined_df, pivot_df, http>>

\* line 90
GeocodeA ==
    /\ pc = "geocode_a"
    /\ \E response \in GeoResponses(city_a_input) :
         LET out == get_coordinates(city_a_input, response) IN
         /\ http' = Append(http, Exchange("get_coordinates", city_a_input, response, out))
         /\ geo_a' = IF out.kind = "return" THEN out.value ELSE geo_a
         /\ exc' = IF out.kind = "raise" THEN Str(out.value) ELSE exc
         /\ pc' = CASE out.kind = "return" -> "geocode_b"
                    [] out.kind = "raise" -> "raised"
                    [] out.kind = "hang" -> "hung"
    /\ UNCHANGED <<city_a_input, city_b_input, date_range, start_date, end_date, geo_b,
                   df_a, df_b, combined_df, pivot_df, ui>>

\* line 91
GeocodeB ==
    /\ pc = "geocode_b"
    /\ \E response \in GeoResponses(city_b_input) :
         LET out == get_coordinates(city_b_input, response) IN
         /\ http' = Append(http, Exchange("get_coordinates", city_b_input, response, out))
         /\ geo_b' = IF out.kind = "return" THEN out.value ELSE geo_b
         /\ exc' = IF out.kind = "raise" THEN Str(out.value) ELSE exc
         /\ pc' = CASE out.kind = "return" -> "coordinates"
                    [] out.kind = "raise" -> "raised"
                    [] out.kind = "hang" -> "hung"
    /\ UNCHANGED <<city_a_input, city_b_input, date_range, start_date, end_date, geo_a,
                   df_a, df_b, combined_df, pivot_df, ui>>

\* lines 93, 145-146
CheckCoordinates ==
    /\ pc = "coordinates"
    /\ IF coordinates_ok(lat_a, lat_b)
       THEN /\ pc' = "fetch_a"
            /\ ui' = ui
       ELSE /\ ui' = Append(ui, [kind |-> "warning"])
            /\ pc' = "done"
    /\ UNCHANGED <<city_a_input, city_b_input, date_range, start_date, end_date, geo_a,
                   geo_b, df_a, df_b, combined_df, pivot_df, http, exc>>

\* line 94
FetchA ==
    /\ pc = "fetch_a"
    /\ \E response \in WeatherResponses(start_date, end_date) :
         LET out == get_weather_data(lat_a, lon_a, start_date, end_date, response) IN
         /\ http' = Append(http, Exchange("get_weather_data",
                               archive_params(lat_a, lon_a, start_date, end_date),
                               response, out))
         /\ df_a' = IF out.kind = "return" THEN out.value ELSE df_a
         /\ exc' = IF out.kind = "raise" THEN Str(out.value) ELSE exc
         /\ pc' = CASE out.kind = "return" -> "fetch_b"
                    [] out.kind = "raise" -> "raised"
                    [] out.kind = "hang" -> "hung"
    /\ UNCHANGED <<city_a_input, city_b_input, date_range, start_date, end_date, geo_a,
                   geo_b, df_b, combined_df, pivot_df, ui>>

\* line 95
FetchB ==
    /\ pc = "fetch_b"
    /\ \E response \in WeatherResponses(start_date, end_date) :
         LET out == get_weather_data(lat_b, lon_b, start_date, end_date, response) IN
         /\ http' = Append(http, Exchange("get_weather_data",
                               archive_params(lat_b, lon_b, start_date, end_date),
                               response, out))
         /\ df_b' = IF out.kind = "return" THEN out.value ELSE df_b
         /\ exc' = IF out.kind = "raise" THEN Str(out.value) ELSE exc
         /\ pc' = CASE out.kind = "return" -> "frames"
                    [] out.kind = "raise" -> "raised"
                    [] out.kind = "hang" -> "hung"
    /\ UNCHANGED <<city_a_input, city_b_input, date_range, start_date, end_date, geo_a,
                   geo_b, df_a, combined_df, pivot_df, ui>>

\* lines 97, 143-144
CheckFrames ==
    /\ pc = "frames"
    /\ IF frames_ok(df_a, df_b)
       THEN /\ pc' = "combine"
            /\ ui' = ui
       ELSE /\ ui' = Append(ui, [kind |-> "error"])
            /\ pc' = "done"
    /\ UNCHANGED <<city_a_input, city_b_input, date_range, start_date, end_date, geo_a,
                   geo_b, df_a, df_b, combined_df, pivot_df, http, exc>>

\* lines 99-111: tag, concatenate, and show the two averages
CombineAndMetrics ==
    /\ pc = "combine"
    /\ df_a' = with_city(df_a, city_label(name_a, country_a))
    /\ df_b' = with_city(df_b, city_label(name_b, country_b))
    /\ combined_df' = concat(df_a', df_b')
    /\ ui' = ui \o << [kind |-> "metric", label |-> "Avg Temp: " \o name_a.v,
                       value |-> format_1f(mean(df_a))],
                      [kind |-> "metric", label |-> "Avg Temp: " \o name_b.v,
                       value |-> format_1f(mean(df_b))] >>
    /\ pc' = "chart"
    /\ UNCHANGED <<city_a_input, city_b_input, date_range, start_date, end_date, geo_a,
                   geo_b, pivot_df, http, exc>>

\* lines 116-137
RenderChart ==
    /\ pc = "chart"
    /\ ui' = Append(ui, [kind |-> "chart", lines |-> px_line(combined_df)])
    /\ pc' = "table"
    /\ UNCHANGED <<city_a_input, city_b_input, date_range, start_date, end_date, geo_a,
                   geo_b, df_a, df_b, combined_df, pivot_df, http, exc>>

\* lines 139-142
RenderTable ==
    /\ pc = "table"
    /\ LET out == pivot(combined_df) IN
         IF out.kind = "return"
         THEN /\ pivot_df' = out.value
              /\ ui' = Append(ui, [kind |-> "table", data |-> out.value])
              /\ pc' = "done"
              /\ exc' = exc
         ELSE /\ exc' = Str(out.value)
              /\ pc' = "raised"
              /\ UNCHANGED <<pivot_df, ui>>
    /\ UNCHANGED <<city_a_input, city_b_input, date_range, start_date, end_date, geo_a,
                   geo_b, df_a, df_b, combined_df, http>>

Next ==
    \/ CheckDateRange
    \/ GeocodeA
    \/ GeocodeB
    \/ CheckCoordinates
    \/ FetchA
    \/ FetchB
    \/ CheckFrames
    \/ CombineAndMetrics
    \/ RenderChart
    \/ RenderTable

Spec == Init /\ [][Next]_vars

----------------------------------------------------------------------------
(* Vocabulary of the properties *)

Terminated == pc \in {"done", "raised", "hung"}

Shown(kind) == \E i \in 1..Len(ui) : ui[i].kind = kind

Rendered == Shown("metric") \/ Shown("chart") \/ Shown("table")

GeoCalls == { i \in 1..Len(http) : http[i].fn = "get_coordinates" }

WeatherCalls == { i \in 1..Len(http) : http[i].fn = "get_weather_data" }

\* the geocoding exchange found nothing / found a place
GeoNotFound(i) == http[i].outcome = Return(<<None, None, None, None>>)

GeoFound(i) ==
    /\ http[i].outcome.kind = "return"
    /\ http[i].outcome.value # <<None, None, None, None>>

\* a 200 response with no matches
ZeroMatches(r) ==
    /\ r.transport = "ok"
    /\ r.status_code = 200
    /\ ("results" \notin DOMAIN r.json \/ r.json.results = <<>>)

\* non-200, empty result list, network error, timeout
GeoFailure(r) == r.transport # "ok" \/ r.status_code # 200 \/ ZeroMatches(r)

\* bad status, a missing expected field, or a network error
WeatherFailure(r) ==
    \/ r.transport = "network_error"
    \/ /\ r.transport = "ok"
       /\ \/ r.status_code # 200
          \/ "daily" \notin DOMAIN r.json
          \/ "time" \notin DOMAIN r.json.daily
          \/ "temperature_2m_max" \notin DOMAIN r.json.daily

\* a 200 response whose parallel arrays carry the same number of days
WeatherSuccess(r) ==
    /\ r.transport = "ok"
    /\ r.status_code = 200
    /\ "daily" \in DOMAIN r.json
    /\ {"time", "temperature_2m_max"} \subseteq DOMAIN r.json.daily
    /\ Len(r.json.daily.time) = Len(r.json.daily.temperature_2m_max)

----------------------------------------------------------------------------
(* Properties *)

\* C1: in a finished run in which a geocoding call returned the not-found
\* signal, the warning is shown, no weather fetch was issued and no metric,
\* chart or table is rendered.
C1_NotFoundWarnsAndStops ==
    (Terminated /\ \E i \in GeoCalls : GeoNotFound(i))
        => (pc = "done" /\ Shown("warning") /\ WeatherCalls = {} /\ ~Rendered)

\* C1, the part that does not depend on the second lookup returning: after a
\* not-found result no weather fetch is issued and nothing is rendered.
C1_NoFetchAfterNotFound ==
    (\E i \in GeoCalls : GeoNotFound(i)) => (WeatherCalls = {} /\ ~Rendered)

\* C2: every failed geocoding call (non-200, empty result list, network
\* error, timeout) returns (None, None, None, None) and does not raise.
C2_GeocoderFailureIsNotFound ==
    \A i \in GeoCalls : GeoFailure(http[i].response) => GeoNotFound(i)

\* C3: every failed archive call (bad status, missing "daily", "time" or
\* "temperature_2m_max", network error) returns None and does not raise.
C3_FetcherFailureIsNone ==
    \A i \in WeatherCalls : WeatherFailure(http[i].response) => http[i].outcome = Return(None)

\* C4: a 200 geocoding response whose "results" array is absent or empty
\* makes get_coordinates return (None, None, None, None), never raise.
C4_ZeroMatchesIsNotFound ==
    \A i \in GeoCalls : ZeroMatches(http[i].response) => GeoNotFound(i)

\* C4 witness: one run in which both lookups had zero matches, one with the
\* "results" key absent and one with it empty, and the page went on.
C4_Witness ==
    /\ pc = "coordinates"
    /\ \E i, j \in GeoCalls :
         /\ ZeroMatches(http[i].response) /\ "results" \notin DOMAIN http[i].response.json
         /\ ZeroMatches(http[j].response) /\ "results" \in DOMAIN http[j].response.json

\* C5: in a finished run in which a weather fetch returned None the error
\* message is shown and no metric, chart or table is rendered; and anything
\* is rendered only when both lookups found a place and both fetches
\* returned a series.
C5_AllOrNothing ==
    /\ (Terminated /\ \E i \in WeatherCalls : http[i].outcome = Return(None))
           => (pc = "done" /\ Shown("error") /\ ~Rendered)
    /\ Rendered =>
           /\ Cardinality(GeoCalls) = 2 /\ \A i \in GeoCalls : GeoFound(i)
           /\ Cardinality(WeatherCalls) = 2
           /\ \A i \in WeatherCalls :
                  http[i].outcome.kind = "return" /\ http[i].outcome.value # None

\* C5, the part that does not depend on the second fetch returning: nothing
\* is rendered once a fetch has returned None, nor before both lookups and
\* both fetches have succeeded.
C5_NoPartialRendering ==
    /\ (\E i \in WeatherCalls : http[i].outcome = Return(None)) => ~Rendered
    /\ Rendered =>
           /\ Cardinality(GeoCalls) = 2 /\ \A i \in GeoCalls : GeoFound(i)
           /\ Cardinality(WeatherCalls) = 2
           /\ \A i \in WeatherCalls :
                  http[i].outcome.kind = "return" /\ http[i].outcome.value # None

\* the two series as fetched (before the City column is added)
FetchedRows(i) == http[i].outcome.value.rows

BothFetched ==
    /\ Cardinality(WeatherCalls) = 2
    /\ \A i \in WeatherCalls :
           http[i].outcome.kind = "return" /\ http[i].outcome.value # None

\* C6: in a finished run in which both series were fetched, the table is
\* shown without error, with one column per distinct city label, one row per
\* date of either series, and an empty cell where a (date, city) pair has no
\* observation.
C6_PivotShape ==
    (Terminated /\ BothFetched) =>
        /\ pc = "done"
        /\ \E k \in 1..Len(ui) :
             /\ ui[k].kind = "table"
             /\ ui[k].data.columns =
                    { c \in { city_label(name_a, country_a), city_label(name_b, country_b) } :
                          \E n \in 1..Len(combined_df.rows) : combined_df.rows[n].City = c }
             /\ { ui[k].data.index[n] : n \in 1..Len(ui[k].data.index) } =
                    UNION { { FetchedRows(i)[n].Date : n \in 1..Len(FetchedRows(i)) } :
                                i \in WeatherCalls }
             /\ Len(ui[k].data.index) =
                    Cardinality({ ui[k].data.index[n] : n \in 1..Len(ui[k].data.index) })
             /\ \A d \in { ui[k].data.index[n] : n \in 1..Len(ui[k].data.index) },
                   c \in ui[k].data.columns :
                    (~ \E n \in 1..Len(combined_df.rows) :
                          combined_df.rows[n].Date = d /\ combined_df.rows[n].City = c)
                        => ui[k].data.values[<<d, c>>] = NaN

\* C7: whenever the long-format table exists it holds at most one row per
\* (date, city label) pair.
C7_UniqueDateCity ==
    combined_df # Unbound =>
        \A m, n \in 1..Len(combined_df.rows) :
            (combined_df.rows[m].Date = combined_df.rows[n].Date
                 /\ combined_df.rows[m].City = combined_df.rows[n].City) => m = n

\* C8: a successful archive response with N days in "time" and
\* "temperature_2m_max" yields exactly N rows, the i-th being
\* (the date time[i] denotes, temperature_2m_max[i]).
C8_RowsMatchArrays ==
    \A i \in WeatherCalls :
        WeatherSuccess(http[i].response) =>
            LET time == http[i].response.json.daily.time
                temp == http[i].response.json.daily.temperature_2m_max
                out == http[i].outcome
            IN  /\ out.kind = "return"
                /\ out.value # None
                /\ Len(out.value.rows) = Len(time)
                /\ \A n \in 1..Len(time) :
                       /\ IsoDates[out.value.rows[n].Date] = time[n]
                       /\ out.value.rows[n].MaxTemp = temp[n]

\* C8 witness: a fetch that returned a series of at least two days, with two
\* different values.
C8_Witness ==
    \E i \in WeatherCalls :
        /\ WeatherSuccess(http[i].response)
        /\ Len(http[i].response.json.daily.time) >= 2
        /\ http[i].response.json.daily.temperature_2m_max[1]
               # http[i].response.json.daily.temperature_2m_max[2]
        /\ http[i].outcome.kind = "return"

\* C9: when the date range is not a list or tuple of exactly two dates, the
\* run ends with the informational prompt alone: no HTTP call was made and
\* nothing else is rendered.
C9_BadRangeOnlyInfo ==
    (pc # "date_range" /\ ~(date_range.type \in {"list", "tuple"} /\ Len(date_range.items) = 2))
        => (pc = "done" /\ ui = <<[kind |-> "info"]>> /\ http = <<>>)

\* C9 witness: the run has ended on a one-date tuple (only the start picked).
C9_Witness ==
    pc = "done" /\ date_range.type = "tuple" /\ Len(date_range.items) = 1

\* C10: when both lookups returned a found result, a run that finishes has
\* issued both weather fetches; and the warning is shown only when a lookup
\* returned the not-found signal.
C10_FoundMeansFetch ==
    /\ (pc = "done" /\ Cardinality(GeoCalls) = 2 /\ \A i \in GeoCalls : GeoFound(i))
           => Cardinality(WeatherCalls) = 2
    /\ Shown("warning") => \E i \in GeoCalls : GeoNotFound(i)

====
